---- MODULE Spec2Model ----
(***************************************************************************)
(* The LangGraph conversation workflow of backend/app/langgraph:           *)
(* supervisor_agent -> (policy_search_agent) -> response_generator_agent,  *)
(* wired by create_workflow and driven by run_workflow, together with the  *)
(* search_policies tool and the pgvector client the Retriever calls.       *)
(* The document progress API of backend/app/api/v1 is a second             *)
(* specification over its own variables, concurrent calls of run_workflow  *)
(* are a third, and the onboarding API of backend/app/api/v1 is a fourth.  *)
(*                                                                         *)
(* Python values are modelled as follows.  None is the string None below.  *)
(* Texts are TLA+ strings; the Korean literals of the source are written   *)
(* in English.  A dict is a record; a list is a sequence.  Scores are      *)
(* integers counting 1/10000 (the source rounds them to 4 decimals).  The  *)
(* "timestamp" of an intermediate step is the wall clock; it is read by    *)
(* nothing and is left out of the step records.                            *)
(***************************************************************************)
EXTENDS Integers, Sequences, FiniteSets, TLC

VARIABLES
    pc,        \* position of the turn in the graph
    entry,     \* how the turn was started: "run_workflow" or "ainvoke"
    state,     \* the AgentState threaded through the nodes
    initial,   \* the AgentState the graph was invoked with
    calls,     \* number of calls issued at each remote-call site
    io,        \* outcome of the last call at each remote-call site
    routed,    \* label route_from_supervisor returned (None before it ran)
    ran,       \* the nodes executed so far, in order
    raised,    \* exception that left a node (None when every node returned)
    reply      \* value handed back to the caller (NotReturned before that)

\* the document progress API (api/v1/document_progress.py)
VARIABLES
    user_document_progress,  \* rows of the user_document_progress table
    toggles,                 \* toggle requests answered so far, per document
    clock,                   \* ticks of datetime.now() so far
    response                 \* body of the last answer (None before any)

\* concurrent calls of run_workflow (graph.py) in one process
VARIABLES
    heap,          \* the AgentState objects allocated so far, by address
    running,       \* per caller: where its turn is and which object it holds
    global_client  \* _global_client of db/pgvector_client.py

\* the onboarding API (api/v1/onboarding.py)
VARIABLES
    user_profiles,       \* rows of the user_profiles table
    user_consents,       \* rows of the user_consents table
    requests,            \* onboarding requests answered so far
    onboarding_response  \* the last answer of the onboarding API

turnVars == <<pc, entry, state, initial, calls, io, routed, ran, raised, reply>>
docVars == <<user_document_progress, toggles, clock, response>>
callVars == <<heap, running, global_client>>
onboardingVars == <<user_profiles, user_consents, requests, onboarding_response>>
\* what a turn of the workflow leaves alone
besideTurn == <<docVars, callVars, onboardingVars>>
vars == <<turnVars, docVars, callVars, onboardingVars>>

(***************************************************************************)
(* Bounds                                                                  *)
(***************************************************************************)
MaxTurns == 2   \* longest messages list handed to workflow.ainvoke
NumRows == 6    \* rows of the youth_policies table
MaxToggles == 5 \* toggle requests the document progress API is sent
MaxRequests == 4 \* requests the onboarding API is sent

(***************************************************************************)
(* Values                                                                  *)
(***************************************************************************)
None == "<None>"
NotReturned == "<not returned>"

UserTexts == {"recommend a savings program", "thanks, bye"}
Roles == {"user", "assistant"}

EmptyContext == [k \in {} |-> None]
UserContexts == {EmptyContext, [age |-> "25", region |-> "Seoul"]}

\* str(x) inside an f-string
PyStr(x) == IF x = None THEN "None" ELSE x

IntStr(n) ==
    CASE n = 0 -> "0" [] n = 1 -> "1" [] n = 2 -> "2" [] n = 3 -> "3"
      [] n = 4 -> "4" [] n = 5 -> "5" [] n = 6 -> "6" [] n = 7 -> "7"
      [] n = 8 -> "8" [] OTHER -> "9"

\* str.strip() on the texts the Text Generation Provider returns here
Strip(s) ==
    CASE s = "   " -> ""
      [] s = " Youth savings account suits you. " -> "Youth savings account suits you."
      [] s = " youth savings 25 Seoul\n" -> "youth savings 25 Seoul"
      [] OTHER -> s

Min(a, b) == IF a < b THEN a ELSE b

(***************************************************************************)
(* Remote-call sites and their outcomes                                    *)
(***************************************************************************)
Sites == {"supervisor_llm", "rewrite_llm", "embedding", "vector_index", "response_llm"}

Raises(e) == [raises |-> TRUE, error |-> e]
Returns(v) == [raises |-> FALSE, value |-> v]

\* what the chat model answers the Supervisor prompt with
JsonAction(a) == "{\"next_action\": \"" \o a \o "\", \"reasoning\": \"because\"}"
ActionNames == {"search_policies", "check_eligibility", "generate_response", "end", "summarize"}
JsonNullAction == "{\"next_action\": null, \"reasoning\": \"because\"}"
JsonNoAction == "{\"reasoning\": \"because\"}"
JsonArray == "[\"search_policies\"]"
JsonString == "\"search_policies\""
NotJson == "I think we should search policies."

SupervisorReplies ==
    {JsonAction(a) : a \in ActionNames}
        \cup {JsonNullAction, JsonNoAction, JsonArray, JsonString, NotJson, ""}

RewriteReplies == {" youth savings 25 Seoul\n", "   "}
ResponseReplies == {" Youth savings account suits you. ", "   ", ""}

LlmOutcomes(replies) == {Raises("ProviderError")} \cup {Returns(r) : r \in replies}

QueryVectors == {"v1", "v2"}
EmbeddingOutcomes == {Raises("EmbeddingError")} \cup {Returns(v) : v \in QueryVectors}

(***************************************************************************)
(* AgentState (state.py)                                                   *)
(***************************************************************************)
\* A message is {"role", "content"}; kind tells how the list holds it: as the
\* dict the caller wrote, or as the message object that the add_messages
\* annotation of AgentState.messages turns it into.
Message(role, content, kind) == [role |-> role, content |-> content, kind |-> kind]

create_initial_state(user_message, user_context) ==
    [messages |-> <<Message("user", user_message, "dict")>>,
     current_agent |-> "supervisor",
     next_action |-> None,
     user_context |-> user_context,
     search_results |-> <<>>,
     related_policies |-> <<>>,
     eligibility_results |-> None,
     intermediate_steps |-> <<>>,
     final_response |-> None,
     error |-> None]

add_intermediate_step(st, step) ==
    [st EXCEPT !.intermediate_steps = Append(@, step)]

\* messages[-1]["content"]: subscripting works on a dict only
LatestContent(messages) ==
    LET m == messages[Len(messages)]
    IN IF m.kind = "dict" THEN Returns(m.content) ELSE Raises("TypeError")

\* what a node hands back: the state it returns, or the exception that leaves
\* it, with the remote calls it issued and how each ended
Done(st, sites, outs) == [exc |-> None, state |-> st, sites |-> sites, outs |-> outs]
Thrown(e, st, sites, outs) == [exc |-> e, state |-> st, sites |-> sites, outs |-> outs]

NoOuts == [s \in {} |-> None]

(***************************************************************************)
(* Intent Router (agents/supervisor.py)                                    *)
(***************************************************************************)
\* json.loads on the replies above: a decode error, or the parsed value
json_loads(text) ==
    IF \E a \in ActionNames : text = JsonAction(a)
    THEN Returns([type |-> "dict", keys |-> {"next_action", "reasoning"},
                  next_action |-> CHOOSE a \in ActionNames : text = JsonAction(a),
                  reasoning |-> "because"])
    ELSE IF text = JsonNullAction
    THEN Returns([type |-> "dict", keys |-> {"next_action", "reasoning"},
                  next_action |-> None, reasoning |-> "because"])
    ELSE IF text = JsonNoAction
    THEN Returns([type |-> "dict", keys |-> {"reasoning"},
                  next_action |-> None, reasoning |-> "because"])
    ELSE IF text = JsonArray THEN Returns([type |-> "list", keys |-> {}])
    ELSE IF text = JsonString THEN Returns([type |-> "str", keys |-> {}])
    ELSE Raises("JSONDecodeError")

\* decision.get("next_action", "generate_response") and what follows it
supervisor_decide(text) ==
    LET parsed == json_loads(text)
    IN IF parsed.raises
       THEN Returns([next_action |-> "generate_response", reasoning |-> "JSON parse failed"])
       ELSE IF parsed.value.type # "dict"
       THEN Raises("AttributeError")
       ELSE Returns([next_action |-> IF "next_action" \in parsed.value.keys
                                     THEN parsed.value.next_action
                                     ELSE "generate_response",
                     reasoning |-> IF "reasoning" \in parsed.value.keys
                                   THEN parsed.value.reasoning
                                   ELSE ""])

\* supervisor_no_messages with the action of a parse failure in place of "end"
supervisor_no_messages_respond(st) ==
    Done([st EXCEPT !.next_action = "generate_response"], {}, NoOuts)

\* Step 1 of supervisor_agent when there is no message
supervisor_no_messages(st) ==
    Done([st EXCEPT !.next_action = "end"], {}, NoOuts)

\* the try block of supervisor_agent
supervisor_try(st, llm) ==
    IF st.messages = <<>>
    THEN supervisor_no_messages(st)
    ELSE IF LatestContent(st.messages).raises
    THEN Thrown(LatestContent(st.messages).error, st, {}, NoOuts)
    ELSE LET outs == [s \in {"supervisor_llm"} |-> llm]
         IN IF llm.raises
            THEN Thrown(llm.error, st, {"supervisor_llm"}, outs)
            ELSE LET d == supervisor_decide(llm.value)
                 IN IF d.raises
                    THEN Thrown(d.error, st, {"supervisor_llm"}, outs)
                    ELSE Done(add_intermediate_step(
                                  [st EXCEPT !.next_action = d.value.next_action,
                                             !.current_agent = "supervisor"],
                                  [agent |-> "supervisor", action |-> "route_decision",
                                   next_action |-> d.value.next_action,
                                   reasoning |-> d.value.reasoning]),
                              {"supervisor_llm"}, outs)

\* the except block of supervisor_agent answering the user itself
supervisor_except_replies(r) ==
    Done([r.state EXCEPT !.error = "Supervisor error: " \o r.exc,
                         !.final_response = "Sorry, an error occurred.",
                         !.next_action = "end"],
         r.sites, r.outs)

\* the except block of supervisor_agent
supervisor_except(r) ==
    Done([r.state EXCEPT !.error = "Supervisor error: " \o r.exc,
                         !.next_action = "end"],
         r.sites, r.outs)

supervisor_agent(st, llm) ==
    LET r == supervisor_try(st, llm)
    IN IF r.exc # None THEN supervisor_except(r) ELSE r

(***************************************************************************)
(* Routing (graph.py)                                                      *)
(***************************************************************************)
\* route_from_supervisor with its else branch ending the turn
route_from_supervisor_else_end(st) ==
    LET next_action == IF "next_action" \in DOMAIN st THEN st.next_action ELSE "end"
    IN IF next_action = "search_policies" THEN "policy_search"
       ELSE IF next_action = "generate_response" THEN "response_generator"
       ELSE "end"

\* route_from_supervisor sending generate_response through the Retriever too
route_from_supervisor_respond_searches(st) ==
    LET next_action == IF "next_action" \in DOMAIN st THEN st.next_action ELSE "end"
    IN IF next_action = "search_policies" THEN "policy_search"
       ELSE IF next_action = "generate_response" THEN "policy_search"
       ELSE IF next_action = "end" THEN "end"
       ELSE "response_generator"

route_from_supervisor(st) ==
    LET next_action == IF "next_action" \in DOMAIN st THEN st.next_action ELSE "end"
    IN IF next_action = "search_policies" THEN "policy_search"
       ELSE IF next_action = "generate_response" THEN "response_generator"
       ELSE IF next_action = "end" THEN "end"
       ELSE "response_generator"

\* route_from_policy_search ending the turn when nothing was found
route_from_policy_search_if_found(st) ==
    IF st.search_results = <<>> THEN "end" ELSE "response_generator"

route_from_policy_search(st) == "response_generator"

\* the supervisor's path map sending the end label back to the supervisor
SupervisorEdges_end_loops(label) ==
    CASE label = "policy_search" -> "policy_search"
      [] label = "response_generator" -> "response_generator"
      [] label = "end" -> "supervisor"

\* the path maps handed to add_conditional_edges, and the plain edge
SupervisorEdges(label) ==
    CASE label = "policy_search" -> "policy_search"
      [] label = "response_generator" -> "response_generator"
      [] label = "end" -> "END"

\* the Retriever's path map leading back into the Retriever
PolicySearchEdges_searches_again(label) ==
    CASE label = "response_generator" -> "policy_search"
      [] label = "end" -> "END"

PolicySearchEdges(label) ==
    CASE label = "response_generator" -> "response_generator"
      [] label = "end" -> "END"

ResponseGeneratorEdge == "END"

(***************************************************************************)
(* Vector Index (db/pgvector_client.py)                                    *)
(***************************************************************************)
TopK == 5

\* the youth_policies table: columns the SELECT reads, NULL as None.
\* policy_name and full_text are NOT NULL (full_text may be the empty
\* text); policy_number, category, region and summary may be NULL.
PolicyRow(id) ==
    CASE id = 1 -> [id |-> 1, policy_number |-> "R2024-001", policy_name |-> "Youth Savings",
                    category |-> "finance", region |-> "Seoul",
                    summary |-> "Savings with bonus interest", full_text |-> "Full text 1"]
      [] id = 2 -> [id |-> 2, policy_number |-> None, policy_name |-> "Rent Support",
                    category |-> None, region |-> None,
                    summary |-> "Rent support", full_text |-> "Full text 2"]
      [] id = 3 -> [id |-> 3, policy_number |-> "R2024-003", policy_name |-> "Job Grant",
                    category |-> "employment", region |-> "Busan",
                    summary |-> None, full_text |-> ""]
      [] OTHER -> [id |-> id, policy_number |-> None, policy_name |-> "Scholarship",
                   category |-> "education", region |-> None,
                   summary |-> "Tuition support", full_text |-> "Full text"]

\* embedding <=> query, in 1/10000
CosineDistance(v, id) ==
    IF v = "v1" THEN 400 * id ELSE 5000 - 1000 * (id % 2)

\* ORDER BY embedding <=> query; rows at the same distance come in scan order
RECURSIVE OrderByDistance(_, _)
OrderByDistance(ids, v) ==
    IF ids = {} THEN <<>>
    ELSE LET first == CHOOSE i \in ids : \A j \in ids :
                          \/ CosineDistance(v, i) < CosineDistance(v, j)
                          \/ CosineDistance(v, i) = CosineDistance(v, j) /\ i <= j
         IN <<first>> \o OrderByDistance(ids \ {first}, v)

Limit(rows, k) == SubSeq(rows, 1, Min(Len(rows), k))

\* json.dumps / json.loads of a metadata value
JsonDump(x) == IF x = None THEN [json |-> "null"] ELSE [json |-> "string", text |-> x]
JsonLoad(j) == IF j.json = "null" THEN None ELSE j.text

Or(a, b) == IF a = None \/ a = "" THEN b ELSE a

\* PgVectorClient.search: embedded is the set of rows WHERE embedding IS NOT NULL
PgVectorClient_search(query_embedding, top_k, embedded) ==
    LET ids == Limit(OrderByDistance(embedded, query_embedding), top_k)
        similarity_score(id) == 10000 - CosineDistance(query_embedding, id)
        result(id) ==
            LET row == PolicyRow(id)
            IN [id |-> row.id,
                policy_id |-> Or(row.policy_number, "POLICY_00" \o IntStr(row.id)),
                distance |-> 10000 - similarity_score(id),
                metadata |-> [title |-> JsonDump(row.policy_name),
                              description |-> JsonDump(Or(row.full_text, row.summary)),
                              category |-> JsonDump(row.category),
                              region |-> JsonDump(row.region),
                              summary |-> JsonDump(row.summary),
                              full_text |-> JsonDump(row.full_text)]]
    IN [i \in 1..Len(ids) |-> result(ids[i])]

IndexOutcomes ==
    {Raises("OperationalError")} \cup {Returns(e) : e \in SUBSET (1..NumRows)}

(***************************************************************************)
(* search_policies tool (mcp/tools.py)                                     *)
(***************************************************************************)
\* metadata.get(key, default)
MetadataGet(metadata, key, default) ==
    IF key \in DOMAIN metadata THEN JsonLoad(metadata[key]) ELSE default

FormatResult(result) ==
    [policy_id |-> result.policy_id,
     title |-> MetadataGet(result.metadata, "title", "No title"),
     description |-> MetadataGet(result.metadata, "description", ""),
     category |-> MetadataGet(result.metadata, "category", ""),
     age_range |-> MetadataGet(result.metadata, "age_range", ""),
     region |-> MetadataGet(result.metadata, "region", "Nationwide"),
     similarity_score |-> result.distance]

\* the try block of search_policies handing the hits back in reverse order
search_policies_try_reordered(query, top_k, emb, index) ==
    IF emb.raises
    THEN [exc |-> emb.error, value |-> <<>>, sites |-> {"embedding"},
          outs |-> [s \in {"embedding"} |-> emb]]
    ELSE IF index.raises
    THEN [exc |-> index.error, value |-> <<>>, sites |-> {"embedding", "vector_index"},
          outs |-> [s \in {"embedding", "vector_index"} |->
                        IF s = "embedding" THEN emb ELSE index]]
    ELSE LET results == PgVectorClient_search(emb.value, top_k, index.value)
             n == Len(results)
         IN [exc |-> None,
             value |-> [i \in 1..n |-> FormatResult(results[n + 1 - i])],
             sites |-> {"embedding", "vector_index"},
             outs |-> [s \in {"embedding", "vector_index"} |->
                           IF s = "embedding" THEN emb ELSE Returns(results)]]

\* the try block of search_policies: generate_embedding re-raises the
\* provider's error, the client raises the index's; the index's outcome is
\* the hit list client.search returned
search_policies_try(query, top_k, emb, index) ==
    IF emb.raises
    THEN [exc |-> emb.error, value |-> <<>>, sites |-> {"embedding"},
          outs |-> [s \in {"embedding"} |-> emb]]
    ELSE IF index.raises
    THEN [exc |-> index.error, value |-> <<>>, sites |-> {"embedding", "vector_index"},
          outs |-> [s \in {"embedding", "vector_index"} |->
                        IF s = "embedding" THEN emb ELSE index]]
    ELSE LET results == PgVectorClient_search(emb.value, top_k, index.value)
         IN [exc |-> None,
             value |-> [i \in 1..Len(results) |-> FormatResult(results[i])],
             sites |-> {"embedding", "vector_index"},
             outs |-> [s \in {"embedding", "vector_index"} |->
                           IF s = "embedding" THEN emb ELSE Returns(results)]]

\* the except block of search_policies
search_policies_except(r) == [r EXCEPT !.exc = None, !.value = <<>>]

search_policies(query, top_k, emb, index) ==
    LET r == search_policies_try(query, top_k, emb, index)
    IN IF r.exc # None THEN search_policies_except(r) ELSE r

(***************************************************************************)
(* Retriever (agents/policy_search.py)                                     *)
(***************************************************************************)
Merge(f, g) == [s \in DOMAIN f \cup DOMAIN g |-> IF s \in DOMAIN g THEN g[s] ELSE f[s]]

\* Step 3 with a failed rewrite leaving no query
optimize_query_fail_empty(latest_message, rewrite) ==
    IF rewrite.raises THEN "" ELSE Strip(rewrite.value)

\* Step 3: the optimized query, or the latest message when the call fails
optimize_query(latest_message, rewrite) ==
    IF rewrite.raises THEN latest_message ELSE Strip(rewrite.value)

\* the try block of policy_search_agent
policy_search_try(st, rewrite, emb, index) ==
    IF st.messages = <<>>
    THEN Done([st EXCEPT !.next_action = "end"], {}, NoOuts)
    ELSE IF LatestContent(st.messages).raises
    THEN Thrown(LatestContent(st.messages).error, st, {}, NoOuts)
    ELSE LET optimized_query == optimize_query(LatestContent(st.messages).value, rewrite)
             found == search_policies(optimized_query, TopK, emb, index)
             search_results == found.value
             sites == {"rewrite_llm"} \cup found.sites
             outs == Merge([s \in {"rewrite_llm"} |-> rewrite], found.outs)
         IN IF found.exc # None
            THEN Thrown(found.exc, st, sites, outs)
            ELSE Done(add_intermediate_step(
                          [st EXCEPT !.search_results = search_results,
                                     !.current_agent = "policy_search",
                                     !.next_action = "generate_response"],
                          [agent |-> "policy_search", action |-> "search_completed",
                           query |-> optimized_query,
                           results_count |-> Len(search_results),
                           top_similarity |-> IF search_results # <<>>
                                              THEN search_results[1].similarity_score
                                              ELSE 0]),
                      sites, outs)

\* the except block of policy_search_agent
policy_search_except(r) ==
    Done([r.state EXCEPT !.search_results = <<>>,
                         !.error = "Policy search error: " \o r.exc,
                         !.current_agent = "policy_search",
                         !.next_action = "generate_response"],
         r.sites, r.outs)

policy_search_agent(st, rewrite, emb, index) ==
    LET r == policy_search_try(st, rewrite, emb, index)
    IN IF r.exc # None THEN policy_search_except(r) ELSE r

(***************************************************************************)
(* Synthesizer (agents/response_generator.py)                              *)
(***************************************************************************)
\* Step 2: policy.get('description', ...)[:200] on the first three results
\* cannot slice None
FormatRaises(search_results) ==
    \E i \in 1..Min(3, Len(search_results)) : search_results[i].description = None

FallbackFound(search_results) ==
    "Sorry, a problem occurred while generating the response.\n\nI did find "
        \o IntStr(Len(search_results)) \o " related policies:\n1. "
        \o PyStr(search_results[1].title) \o "\n\nCould you ask again for details?"

FallbackEmpty ==
    "Sorry, I could not find the policy you asked for.\n\nTry other search terms, or a broader search such as \"youth policy\".\n\nHow can I help?"

\* the fallback text chosen without looking at search_results
fallback_response_ignores_results(search_results) == FallbackEmpty

fallback_response(search_results) ==
    IF search_results # <<>> THEN FallbackFound(search_results) ELSE FallbackEmpty

\* the try block of response_generator_agent
response_generator_try(st, llm) ==
    IF st.messages = <<>>
    THEN Done([st EXCEPT !.next_action = "end"], {}, NoOuts)
    ELSE IF FormatRaises(st.search_results)
    THEN Thrown("TypeError", st, {}, NoOuts)
    ELSE LET outs == [s \in {"response_llm"} |-> llm]
         IN IF llm.raises
            THEN Thrown(llm.error, st, {"response_llm"}, outs)
            ELSE LET final_response == Strip(llm.value)
                 IN Done(add_intermediate_step(
                             [st EXCEPT !.final_response = final_response,
                                        !.current_agent = "response_generator",
                                        !.next_action = "end",
                                        !.messages = Append(@, Message("assistant",
                                                                       final_response,
                                                                       "dict"))],
                             [agent |-> "response_generator",
                              action |-> "response_generated",
                              response_length |-> Len(final_response),
                              used_policies |-> Len(st.search_results)]),
                         {"response_llm"}, outs)

\* the except block of response_generator_agent leaving final_response unset
response_generator_except_no_reply(r) ==
    LET text == fallback_response(r.state.search_results)
    IN Done([r.state EXCEPT !.error = "Response generation error: " \o r.exc,
                            !.current_agent = "response_generator",
                            !.next_action = "end",
                            !.messages = Append(@, Message("assistant", text, "dict"))],
            r.sites, r.outs)

\* the except block of response_generator_agent without messages.append
response_generator_except_no_append(r) ==
    LET text == fallback_response(r.state.search_results)
    IN Done([r.state EXCEPT !.final_response = text,
                            !.error = "Response generation error: " \o r.exc,
                            !.current_agent = "response_generator",
                            !.next_action = "end"],
            r.sites, r.outs)

\* the except block of response_generator_agent leaving next_action as it was
response_generator_except_keeps_action(r) ==
    LET text == fallback_response(r.state.search_results)
    IN Done([r.state EXCEPT !.final_response = text,
                            !.error = "Response generation error: " \o r.exc,
                            !.current_agent = "response_generator",
                            !.messages = Append(@, Message("assistant", text, "dict"))],
            r.sites, r.outs)

\* the except block of response_generator_agent writing a default profile
\* into user_context before it builds the fallback text
response_generator_except_fills_context(r) ==
    LET text == fallback_response(r.state.search_results)
    IN Done([r.state EXCEPT !.final_response = text,
                            !.user_context = [region |-> "Nationwide"],
                            !.error = "Response generation error: " \o r.exc,
                            !.current_agent = "response_generator",
                            !.next_action = "end",
                            !.messages = Append(@, Message("assistant", text, "dict"))],
            r.sites, r.outs)

\* the except block of response_generator_agent not recording the error
response_generator_except_no_error(r) ==
    LET text == fallback_response(r.state.search_results)
    IN Done([r.state EXCEPT !.final_response = text,
                            !.current_agent = "response_generator",
                            !.next_action = "end",
                            !.messages = Append(@, Message("assistant", text, "dict"))],
            r.sites, r.outs)

\* the except block of response_generator_agent
response_generator_except(r) ==
    LET text == fallback_response(r.state.search_results)
    IN Done([r.state EXCEPT !.final_response = text,
                            !.error = "Response generation error: " \o r.exc,
                            !.current_agent = "response_generator",
                            !.next_action = "end",
                            !.messages = Append(@, Message("assistant", text, "dict"))],
            r.sites, r.outs)

\* response_generator_agent without its except block
response_generator_agent_unguarded(st, llm) == response_generator_try(st, llm)

response_generator_agent(st, llm) ==
    LET r == response_generator_try(st, llm)
    IN IF r.exc # None THEN response_generator_except(r) ELSE r

(***************************************************************************)
(* Orchestrator (graph.py): one turn                                       *)
(***************************************************************************)
DefaultReply == "The response could not be generated."

\* final_state.get("final_response", <default>)
run_workflow_result(final_state) ==
    IF "final_response" \in DOMAIN final_state
    THEN final_state.final_response
    ELSE DefaultReply

\* the except block of run_workflow
run_workflow_except(e) == "Sorry, an error occurred: " \o e

\* the messages lists a caller of workflow.ainvoke may hand over
MessageLists ==
    UNION {[1..n -> {Message(r, t, "dict") : r \in Roles, t \in UserTexts}] : n \in 0..MaxTurns}

\* add_messages keeps the list and holds each entry as a message object
add_messages(messages) ==
    [i \in 1..Len(messages) |-> [messages[i] EXCEPT !.kind = "object"]]

NoCalls == [s \in Sites |-> 0]
NoIo == [s \in Sites |-> Returns(None)]

\* the keys of the table's unique constraint the requests here use
Users == {"u1", "u2"}
PolicyIds == {1}
DocumentIndexes == {0, 1}
DocumentKeys == Users \X PolicyIds \X DocumentIndexes

\* the document progress API before any request: an empty table
DocumentsInit ==
    /\ user_document_progress = {}
    /\ toggles = [k \in DocumentKeys |-> 0]
    /\ clock = 0
    /\ response = None

\* the callers that may have a run_workflow call in flight at once
Callers == {"a", "b"}

NoObject == 0

\* a caller that has not called yet
NotCalled ==
    [pc |-> "start", ref |-> NoObject,
     input |-> create_initial_state("", EmptyContext),
     fed |-> <<>>, reply |-> NotReturned]

\* the process before any call: no state allocated, no pgvector client
CallsInit ==
    /\ heap = <<>>
    /\ running = [c \in Callers |-> NotCalled]
    /\ global_client = None

\* UserProfile(user_id, onboarding_completed=False,
\* profile_completion_rate=0): the columns not given are NULL.  goals is
\* read only for its truth value, for which None and [] are alike, so a
\* NULL goals column is written <<>>.  Ages are written as texts.
UserProfile(user_id) ==
    [user_id |-> user_id,
     goals |-> <<>>, age |-> None, region |-> None, job_category |-> None,
     employment_status |-> None, income_range |-> None,
     education_level |-> None, ai_personality |-> None,
     onboarding_completed |-> FALSE, profile_completion_rate |-> 0]

\* UserConsent(user_id, privacy_policy=True, terms_of_service=True, ...) as
\* register creates it: only the two mandatory consents
UserConsent(user_id) ==
    [user_id |-> user_id,
     privacy_policy |-> TRUE, terms_of_service |-> TRUE,
     push_notification |-> FALSE, marketing_notification |-> FALSE,
     data_analytics |-> FALSE, personalized_ads |-> FALSE]

\* no answer yet
NoResponse ==
    [status |-> None, next_step |-> None, profile_completion_rate |-> None]

\* the onboarding API before any request: u1 has no profile row and no
\* consent row (the case select_goals creates one for), u2 has the rows
\* that register created
OnboardingInit ==
    /\ user_profiles = {UserProfile("u2")}
    /\ user_consents = {UserConsent("u2")}
    /\ requests = 0
    /\ onboarding_response = NoResponse

Init ==
    /\ DocumentsInit
    /\ CallsInit
    /\ OnboardingInit
    /\ pc = "start"
    /\ entry = None
    /\ state = create_initial_state("", EmptyContext)
    /\ initial = create_initial_state("", EmptyContext)
    /\ calls = NoCalls
    /\ io = NoIo
    /\ routed = None
    /\ ran = <<>>
    /\ raised = None
    /\ reply = NotReturned

\* workflow.ainvoke(st): the graph starts at its entry point
Invoke(st, how) ==
    /\ pc = "start"
    /\ pc' = "supervisor"
    /\ entry' = how
    /\ state' = st
    /\ initial' = st
    /\ UNCHANGED <<calls, io, routed, ran, raised, reply>>
    /\ UNCHANGED besideTurn

\* run_workflow(user_message, user_context) up to the first node
RunWorkflow ==
    \E user_message \in UserTexts, user_context \in UserContexts, reduced \in BOOLEAN :
        LET st == create_initial_state(user_message, user_context)
        IN Invoke(IF reduced THEN [st EXCEPT !.messages = add_messages(@)] ELSE st,
                  "run_workflow")

\* get_workflow().ainvoke(state) with a state the caller built
Ainvoke ==
    \E messages \in MessageLists, user_context \in UserContexts, reduced \in BOOLEAN :
        LET st == [create_initial_state("", user_context) EXCEPT !.messages = messages]
        IN Invoke(IF reduced THEN [st EXCEPT !.messages = add_messages(@)] ELSE st,
                  "ainvoke")

\* a node ran: its state replaces the turn's, or its exception ends the graph
NodeRan(node, r, next) ==
    /\ ran' = Append(ran, node)
    /\ calls' = [s \in Sites |-> IF s \in r.sites THEN calls[s] + 1 ELSE calls[s]]
    /\ io' = [s \in Sites |-> IF s \in r.sites THEN r.outs[s] ELSE io[s]]
    /\ IF r.exc = None
       THEN /\ state' = r.state
            /\ raised' = raised
            /\ pc' = next
       ELSE /\ state' = state
            /\ raised' = r.exc
            /\ pc' = "aborted"
    /\ UNCHANGED <<entry, initial, routed, reply>>
    /\ UNCHANGED besideTurn

SupervisorAgent ==
    /\ pc = "supervisor"
    /\ \E llm \in LlmOutcomes(SupervisorReplies) :
           NodeRan("supervisor", supervisor_agent(state, llm), "routing")

RouteFromSupervisor ==
    /\ pc = "routing"
    /\ routed' = route_from_supervisor(state)
    /\ pc' = SupervisorEdges(routed')
    /\ UNCHANGED <<entry, state, initial, calls, io, ran, raised, reply>>
    /\ UNCHANGED besideTurn

PolicySearchAgent ==
    /\ pc = "policy_search"
    /\ \E rewrite \in LlmOutcomes(RewriteReplies), emb \in EmbeddingOutcomes,
          index \in IndexOutcomes :
           NodeRan("policy_search", policy_search_agent(state, rewrite, emb, index),
                   "searched")

RouteFromPolicySearch ==
    /\ pc = "searched"
    /\ pc' = PolicySearchEdges(route_from_policy_search(state))
    /\ UNCHANGED <<entry, state, initial, calls, io, routed, ran, raised, reply>>
    /\ UNCHANGED besideTurn

ResponseGeneratorAgent ==
    /\ pc = "response_generator"
    /\ \E llm \in LlmOutcomes(ResponseReplies) :
           NodeRan("response_generator", response_generator_agent(state, llm),
                   ResponseGeneratorEdge)

\* the graph is over: run_workflow returns its text, ainvoke the final state
Finish ==
    /\ pc \in {"END", "aborted"}
    /\ pc' = "returned"
    /\ reply' = IF entry = "run_workflow"
                THEN IF raised # None
                     THEN run_workflow_except(raised)
                     ELSE run_workflow_result(state)
                ELSE IF raised # None THEN NotReturned ELSE state.final_response
    /\ UNCHANGED <<entry, state, initial, calls, io, routed, ran, raised>>
    /\ UNCHANGED besideTurn

Next ==
    \/ RunWorkflow
    \/ Ainvoke
    \/ SupervisorAgent
    \/ RouteFromSupervisor
    \/ PolicySearchAgent
    \/ RouteFromPolicySearch
    \/ ResponseGeneratorAgent
    \/ Finish

Spec == Init /\ [][Next]_vars

\* the call at site s was issued and raised / returned v
CallRaised(s) == calls[s] > 0 /\ io[s].raises
CallReturned(s, v) == calls[s] > 0 /\ ~io[s].raises /\ io[s].value = v

(***************************************************************************)
(* Properties                                                              *)
(***************************************************************************)
IsNonEmptyString(x) == x \notin {None, NotReturned, ""}

AfterSupervisor == pc \notin {"start", "supervisor"}
Times(node) == Cardinality({i \in 1..Len(ran) : ran[i] = node})

\* C1: a turn that run_workflow starts with a non-empty messages list returns
\* a non-empty string, whatever the providers and the classifier answered.
C1_ReplyIsNonEmptyString ==
    (pc = "returned" /\ entry = "run_workflow" /\ initial.messages # <<>>)
        => IsNonEmptyString(reply)

\* C2: no node lets an exception out (every failure inside a node ends in the
\* node returning a state), and the call hands a value back to its caller.
C2_NoExceptionLeavesAStage ==
    /\ raised = None
    /\ pc # "aborted"
    /\ pc = "returned" => reply # NotReturned

\* C2 witness: the rewrite, embedding and response calls all raised in a turn
\* that returned.
C2_Witness ==
    /\ pc = "returned"
    /\ CallRaised("rewrite_llm")
    /\ CallRaised("embedding")
    /\ CallRaised("response_llm")

\* C3: when the Intent Router's Text Generation call raises on a non-empty
\* turn, the router leaves next_action = generate_response with error set,
\* and the turn does not end without the Synthesizer having run.
C3_RouterFailureRespond ==
    (CallRaised("supervisor_llm") /\ initial.messages # <<>>)
        => /\ pc = "routing" => (state.next_action = "generate_response"
                                    /\ state.error # None)
           /\ pc \in {"END", "returned"} => Times("response_generator") = 1

\* the router replies that are not JSON, or are JSON without next_action
RepliesWithoutAction == {NotJson, "", JsonNoAction, JsonArray, JsonString}

\* C4: when the router's reply is not JSON, or is JSON without next_action
\* (JSON that is no object included), the router sets generate_response,
\* never search_policies and never end.
C4_MalformedReplyRespond ==
    (pc = "routing" /\ \E text \in RepliesWithoutAction :
                           CallReturned("supervisor_llm", text))
        => state.next_action = "generate_response"

\* C5: a turn started with an empty messages list has the router set
\* next_action = end, runs no other node, issues no remote call, and is never
\* stuck short of its end: the only steps left lead to END and to the return.
C5_EmptyInputEnds ==
    (initial.messages = <<>> /\ AfterSupervisor)
        => /\ state.next_action = "end"
           /\ ran = <<"supervisor">>
           /\ pc \in {"routing", "END", "returned"}
           /\ pc # "routing" => routed = "end"
           /\ pc # "returned" => ENABLED Next
           /\ calls = NoCalls

\* C5 witness: a turn started with no message has returned.
C5_Witness == pc = "returned" /\ initial.messages = <<>>

\* C6: when the router chose end, the turn ends with the closing text as its
\* reply and neither the Retriever nor the Synthesizer ran or called out.
C6_EndGivesClosingMessage ==
    (routed = "end" /\ entry = "run_workflow")
        => /\ ran = <<"supervisor">>
           /\ \A s \in Sites \ {"supervisor_llm"} : calls[s] = 0
           /\ pc = "returned" => reply = DefaultReply

\* the mapping the routing step is to compute from next_action
RouteOf(next_action) ==
    CASE next_action = "search_policies" -> "policy_search"
      [] next_action = "generate_response" -> "response_generator"
      [] next_action = "end" -> "END"
      [] OTHER -> "response_generator"

\* C7: the step after the Intent Router leaves the state alone and goes to
\* the Retriever on search_policies, to the Synthesizer on generate_response,
\* to the end on end, and to the Synthesizer on anything else.
C7_RoutingIsAMapping ==
    [][pc = "routing" => (state' = state /\ pc' = RouteOf(state.next_action))]_vars

\* C7 witness: check_eligibility was routed to the Synthesizer.
C7_Witness ==
    /\ pc = "response_generator"
    /\ routed = "response_generator"
    /\ state.next_action = "check_eligibility"

\* C8: the Retriever runs at most once, and the node after it is always the
\* Synthesizer, whatever it left in the state.
C8_RetrieverThenSynthesizer ==
    /\ Times("policy_search") <= 1
    /\ \A i \in 1..Len(ran) :
           ran[i] = "policy_search"
               => IF i < Len(ran)
                  THEN ran[i + 1] = "response_generator"
                  ELSE pc \in {"searched", "response_generator"}

\* C8 witness: the Synthesizer ran after a Retriever whose index call raised
\* and which found nothing.
C8_Witness ==
    /\ ran = <<"supervisor", "policy_search", "response_generator">>
    /\ CallRaised("vector_index")
    /\ state.search_results = <<>>

\* C9: when the Vector Index call raises, search_results is empty when the
\* Retriever returns, the Synthesizer runs, and the turn ends with a
\* non-empty final_response.
C9_IndexFailureStillAnswers ==
    CallRaised("vector_index")
        => /\ pc = "searched" => state.search_results = <<>>
           /\ pc \in {"END", "returned"}
                  => (Times("response_generator") = 1
                         /\ IsNonEmptyString(state.final_response))

\* C10: when the Embedding or the Vector Index call raises, the Retriever
\* returns with error set and search_results empty.
C10_RetrievalFailureRecorded ==
    (pc = "searched" /\ (CallRaised("embedding") \/ CallRaised("vector_index")))
        => (state.error # None /\ state.search_results = <<>>)

\* the turn is over: the graph reached END or the call returned
TurnOver == pc \in {"END", "returned"}

\* C11 as stated: when the Vector Index call raised, the turn's reply is the
\* empty-candidates fallback template, not generated text.
C11_IndexFailureGivesFallback ==
    (CallRaised("vector_index") /\ TurnOver)
        => /\ state.final_response = FallbackEmpty
           /\ (pc = "returned" /\ entry = "run_workflow") => reply = FallbackEmpty

\* C11 amended: when the Vector Index call raised, the turn completes with
\* the Synthesizer having run on no candidates; the reply is the
\* empty-candidates fallback template exactly when the Synthesizer's own
\* generation call raised, and the trimmed generated text otherwise.
C11_IndexFailureFallbackOnlyIfGenerationFails ==
    CallRaised("vector_index")
        => /\ raised = None
           /\ pc # "returned" => ENABLED Next
           /\ TurnOver
                  => /\ Times("response_generator") = 1
                     /\ state.search_results = <<>>
                     /\ calls["response_llm"] = 1
                     /\ state.final_response =
                            IF io["response_llm"].raises
                            THEN FallbackEmpty
                            ELSE Strip(io["response_llm"].value)
                     /\ (pc = "returned" /\ entry = "run_workflow")
                            => reply = state.final_response

\* C11 witness: the index call raised, the generation call answered, and the
\* turn returned the generated text.
C11_Witness ==
    /\ pc = "returned"
    /\ entry = "run_workflow"
    /\ CallRaised("vector_index")
    /\ CallReturned("response_llm", " Youth savings account suits you. ")
    /\ reply = "Youth savings account suits you."

\* C12: when the Synthesizer's generation call raised, final_response is the
\* template of search_results alone (the one naming the first result's title
\* when there are results, the apology suggesting a broader search when there
\* are none), error is set, and that same text is the one assistant entry
\* appended to messages.
C12_GenerationFailureGivesTemplate ==
    (CallRaised("response_llm") /\ TurnOver)
        => /\ state.search_results # <<>>
                  => state.final_response = FallbackFound(state.search_results)
           /\ state.search_results = <<>> => state.final_response = FallbackEmpty
           /\ state.error # None
           /\ state.messages = Append(initial.messages,
                                      Message("assistant", state.final_response, "dict"))

\* C12 witness: the generation call raised on two results and the turn ended
\* with the template naming the first one.
C12_Witness ==
    /\ pc = "END"
    /\ CallRaised("response_llm")
    /\ Len(state.search_results) = 2
    /\ state.final_response = FallbackFound(state.search_results)
    /\ state.error # None

\* C13: whenever the Synthesizer has returned, final_response is a non-empty
\* string, whatever the generation call answered (blank text included) and
\* whether or not it raised.
C13_SynthesizerReplyNonEmpty ==
    Times("response_generator") = 1 => IsNonEmptyString(state.final_response)

\* the latest entry of the trace
LastStep == state.intermediate_steps[Len(state.intermediate_steps)]

\* C14: when the Retriever's rewrite call raised, the query it searched with
\* is the latest message's text unchanged, the embedding call and (once the
\* embedding is there) the index call are still issued, and every hit the
\* index returned is in search_results.
C14_RewriteFailureSearchesRawText ==
    (pc = "searched" /\ CallRaised("rewrite_llm"))
        => /\ calls["embedding"] = 1
           /\ ~io["embedding"].raises => calls["vector_index"] = 1
           /\ (~io["embedding"].raises /\ ~io["vector_index"].raises)
                  => /\ Len(state.search_results) = Len(io["vector_index"].value)
                     /\ LastStep.agent = "policy_search"
                     /\ LastStep.query =
                            initial.messages[Len(initial.messages)].content

\* C14 witness: the rewrite call raised and the search still found three
\* policies for the raw text.
C14_Witness ==
    /\ pc = "searched"
    /\ CallRaised("rewrite_llm")
    /\ Len(state.search_results) = 3
    /\ LastStep.query = initial.messages[Len(initial.messages)].content

\* the search succeeded: the embedding and the index call both returned
SearchSucceeded ==
    /\ pc = "searched"
    /\ calls["embedding"] = 1 /\ ~io["embedding"].raises
    /\ calls["vector_index"] = 1 /\ ~io["vector_index"].raises

\* C15: after a successful search, search_results is the index's hit list
\* entry for entry: as many entries, at most five, the i-th carrying the
\* i-th hit's policy_id.
C15_CandidatesMirrorHits ==
    SearchSucceeded
        => LET hits == io["vector_index"].value
           IN /\ Len(state.search_results) = Len(hits)
              /\ Len(hits) <= 5
              /\ \A i \in 1..Len(hits) :
                     state.search_results[i].policy_id = hits[i].policy_id

\* C15 witness: a search that returned five distinct hits, the limit.
C15_Witness ==
    /\ SearchSucceeded
    /\ Len(state.search_results) = 5
    /\ Cardinality({state.search_results[i].policy_id : i \in 1..5}) = 5

\* C16: after a successful search each candidate's similarity_score is 1
\* minus the cosine distance between the query and its row (in ten
\* thousandths), so the scores never increase along the list.
C16_ScoreIsOneMinusDistance ==
    SearchSucceeded
        => LET hits == io["vector_index"].value
               query_embedding == io["embedding"].value
               score(i) == state.search_results[i].similarity_score
           IN /\ \A i \in 1..Len(hits) :
                     score(i) = 10000 - CosineDistance(query_embedding, hits[i].id)
              /\ \A i \in 1..(Len(hits) - 1) : score(i) >= score(i + 1)

C20_OneTraceEntryPerStage ==
    /\ Len(state.intermediate_steps) = Len(ran)
    /\ \A i \in 1..Len(ran) : state.intermediate_steps[i].agent = ran[i]

(***************************************************************************)
(* Document progress API (api/v1/document_progress.py).  The GET           *)
(* endpoints only read the table; the toggle is its one writer.            *)
(***************************************************************************)
DocumentNames == {"ID card", "Bankbook copy"}

\* datetime.now() at tick n
Timestamp(n) == "t" \o IntStr(n)

\* db.query(DocumentProgress).filter(user_id, policy_id, document_index)
Matching(user_id, policy_id, document_index) ==
    {p \in user_document_progress :
         /\ p.user_id = user_id
         /\ p.policy_id = policy_id
         /\ p.document_index = document_index}

\* Step 2a without the else branch that clears completed_at
toggle_existing_keeps_completed_at(progress, now) ==
    LET is_completed == ~progress.is_completed
    IN [progress EXCEPT !.is_completed = is_completed,
                        !.updated_at = now,
                        !.completed_at = IF is_completed THEN now ELSE @]

\* Step 2a: the record exists and is flipped
toggle_existing(progress, now) ==
    LET is_completed == ~progress.is_completed
    IN [progress EXCEPT !.is_completed = is_completed,
                        !.updated_at = now,
                        !.completed_at = IF is_completed THEN now ELSE None]

\* Step 2b: the first click creates the record; id is the autoincrement
\* key of a table nothing is deleted from, the timestamps are the defaults
new_progress(user_id, policy_id, document_index, document_name, now) ==
    [id |-> Cardinality(user_document_progress) + 1,
     user_id |-> user_id,
     policy_id |-> policy_id,
     document_index |-> document_index,
     document_name |-> document_name,
     is_completed |-> TRUE,
     created_at |-> now,
     updated_at |-> now,
     completed_at |-> now]

InternalServerError == "500 Internal Server Error"

\* POST /document-progress/toggle.  committed is whether db.commit() went
\* through: when it raises, the session is dropped with the table as it was.
toggle_document_completion(user_id, policy_id, document_index, document_name) ==
    LET found == Matching(user_id, policy_id, document_index)
        now == Timestamp(clock + 1)
        key == <<user_id, policy_id, document_index>>
        Commit(old, progress) ==
            \E committed \in BOOLEAN :
                IF committed
                THEN /\ user_document_progress' =
                            (user_document_progress \ old) \cup {progress}
                     /\ toggles' = [toggles EXCEPT ![key] = @ + 1]
                     /\ response' = progress
                ELSE /\ response' = InternalServerError
                     /\ UNCHANGED <<user_document_progress, toggles>>
    IN /\ clock < MaxToggles
       /\ clock' = clock + 1
       /\ IF found # {}
          THEN \E progress \in found :
                   Commit({progress}, toggle_existing(progress, now))
          ELSE Commit({}, new_progress(user_id, policy_id, document_index,
                                       document_name, now))
       /\ UNCHANGED <<turnVars, callVars, onboardingVars>>

ToggleDocumentCompletion ==
    \E user_id \in Users, policy_id \in PolicyIds, document_index \in DocumentIndexes,
       document_name \in DocumentNames :
        toggle_document_completion(user_id, policy_id, document_index, document_name)

DocumentsNext == ToggleDocumentCompletion

DocumentsSpec == Init /\ [][DocumentsNext]_vars

\* C19: for every (user, policy, document index), no record exists before
\* the first toggle; from then on there is exactly one, is_completed is true
\* exactly when the number of toggles so far is odd, and completed_at is set
\* exactly when is_completed is true.
C19_ToggleParity ==
    \A key \in DocumentKeys :
        LET found == Matching(key[1], key[2], key[3])
        IN IF toggles[key] = 0
           THEN found = {}
           ELSE /\ Cardinality(found) = 1
                /\ \A progress \in found :
                       /\ progress.is_completed = (toggles[key] % 2 = 1)
                       /\ (progress.completed_at # None) = progress.is_completed

\* C19 witness: one document toggled three times is completed, another
\* toggled twice (created, then flipped back) is not and has no completed_at.
C19_Witness ==
    /\ toggles[<<"u1", 1, 0>>] = 3
    /\ \E p \in Matching("u1", 1, 0) : p.is_completed /\ p.completed_at # None
    /\ toggles[<<"u2", 1, 1>>] = 2
    /\ \E p \in Matching("u2", 1, 1) : ~p.is_completed /\ p.completed_at = None

(***************************************************************************)
(* Concurrent calls of run_workflow (graph.py): each caller awaits its own *)
(* call; the event loop interleaves the calls node by node.                *)
(***************************************************************************)
\* the provider answers drawn for concurrent calls
CallSupervisorOutcomes ==
    LlmOutcomes({JsonAction("search_policies"), JsonAction("generate_response")})
CallRewriteOutcomes == LlmOutcomes({" youth savings 25 Seoul\n"})
CallEmbeddingOutcomes == {Raises("EmbeddingError"), Returns("v1")}
CallIndexOutcomes == {Raises("OperationalError"), Returns({1, 2})}
CallResponseOutcomes == LlmOutcomes({" Youth savings account suits you. "})

\* one state object kept at module level and handed to every call
allocate_state_module_level(h) == 1

\* AgentState(...) in create_initial_state builds a new object on every call
allocate_state(h) == Len(h) + 1

\* the object at address ref now holds st
Store(h, ref, st) == IF ref \in DOMAIN h THEN [h EXCEPT ![ref] = st] ELSE Append(h, st)

\* get_pgvector_client(): the value of _global_client after the call, which
\* builds the client on first use; connects is whether psycopg2.connect did
get_pgvector_client(client, connects) ==
    IF client = None
    THEN IF connects THEN "PgVectorClient" ELSE None
    ELSE client

CallRunWorkflow(c) ==
    /\ running[c].pc = "start"
    /\ \E user_message \in UserTexts, user_context \in UserContexts :
           LET st == create_initial_state(user_message, user_context)
               ref == allocate_state(heap)
           IN /\ heap' = Store(heap, ref, st)
              /\ running' = [running EXCEPT ![c] = [@ EXCEPT !.pc = "supervisor",
                                                             !.ref = ref,
                                                             !.input = st]]
    /\ UNCHANGED <<global_client, turnVars, docVars, onboardingVars>>

\* a node of caller c ran on the object c holds, fed with the provider
\* answers recorded in given
CallNodeRan(c, r, given, next) ==
    /\ heap' = IF r.exc = None THEN [heap EXCEPT ![running[c].ref] = r.state] ELSE heap
    /\ running' = [running EXCEPT ![c] =
                       [@ EXCEPT !.pc = IF r.exc = None THEN next ELSE "aborted",
                                 !.fed = Append(@, given),
                                 !.reply = IF r.exc = None
                                           THEN @
                                           ELSE run_workflow_except(r.exc)]]
    /\ UNCHANGED <<turnVars, docVars, onboardingVars>>

CallSupervisorAgent(c) ==
    /\ running[c].pc = "supervisor"
    /\ \E llm \in CallSupervisorOutcomes :
           CallNodeRan(c, supervisor_agent(heap[running[c].ref], llm),
                       [node |-> "supervisor", llm |-> llm], "routing")
    /\ UNCHANGED global_client

CallRouteFromSupervisor(c) ==
    /\ running[c].pc = "routing"
    /\ running' = [running EXCEPT ![c].pc =
                       SupervisorEdges(route_from_supervisor(heap[running[c].ref]))]
    /\ UNCHANGED <<heap, global_client, turnVars, docVars, onboardingVars>>

\* the Retriever of caller c ran; once it got to the index it had asked for
\* the process's pgvector client
CallSearched(c, r, given, connects) ==
    /\ CallNodeRan(c, r, given, "searched")
    /\ global_client' = IF "vector_index" \in r.sites
                        THEN get_pgvector_client(global_client, connects)
                        ELSE global_client

CallPolicySearchAgent(c) ==
    /\ running[c].pc = "policy_search"
    /\ \E rewrite \in CallRewriteOutcomes, emb \in CallEmbeddingOutcomes,
          index \in CallIndexOutcomes, connects \in BOOLEAN :
           /\ ~index.raises => connects
           /\ CallSearched(c, policy_search_agent(heap[running[c].ref], rewrite, emb,
                                                  index),
                           [node |-> "policy_search", rewrite |-> rewrite,
                            emb |-> emb, index |-> index],
                           connects)

CallRouteFromPolicySearch(c) ==
    /\ running[c].pc = "searched"
    /\ running' = [running EXCEPT ![c].pc =
                       PolicySearchEdges(route_from_policy_search(heap[running[c].ref]))]
    /\ UNCHANGED <<heap, global_client, turnVars, docVars, onboardingVars>>

CallResponseGeneratorAgent(c) ==
    /\ running[c].pc = "response_generator"
    /\ \E llm \in CallResponseOutcomes :
           CallNodeRan(c, response_generator_agent(heap[running[c].ref], llm),
                       [node |-> "response_generator", llm |-> llm],
                       ResponseGeneratorEdge)
    /\ UNCHANGED global_client

\* the call of caller c returns
CallFinish(c) ==
    /\ running[c].pc \in {"END", "aborted"}
    /\ running' = [running EXCEPT ![c] =
                       [@ EXCEPT !.pc = "returned",
                                 !.reply = IF running[c].pc = "aborted"
                                           THEN @
                                           ELSE run_workflow_result(heap[running[c].ref])]]
    /\ UNCHANGED <<heap, global_client, turnVars, docVars, onboardingVars>>

CallsNext ==
    \E c \in Callers :
        \/ CallRunWorkflow(c)
        \/ CallSupervisorAgent(c)
        \/ CallRouteFromSupervisor(c)
        \/ CallPolicySearchAgent(c)
        \/ CallRouteFromPolicySearch(c)
        \/ CallResponseGeneratorAgent(c)
        \/ CallFinish(c)

CallsSpec == Init /\ [][CallsNext]_vars

\* the state a node leaves when run on st with the provider answers given
NodeApplied(st, given) ==
    CASE given.node = "supervisor" -> supervisor_agent(st, given.llm).state
      [] given.node = "policy_search" ->
             policy_search_agent(st, given.rewrite, given.emb, given.index).state
      [] given.node = "response_generator" ->
             response_generator_agent(st, given.llm).state

\* the state a call reaches from st alone, fed with the answers it received
RECURSIVE Replayed(_, _)
Replayed(st, fed) ==
    IF fed = <<>> THEN st ELSE Replayed(NodeApplied(st, Head(fed)), Tail(fed))

\* C18: with calls interleaved in any order, no two calls hold the same
\* state object, and what a call's state holds at every point (and the reply
\* it returns) is what its own input and the provider answers it received
\* give when run alone: nothing of it comes from, or goes to, another call.
C18_CallsAreIsolated ==
    /\ \A c, d \in Callers :
           (c # d /\ running[c].ref # NoObject /\ running[d].ref # NoObject)
               => running[c].ref # running[d].ref
    /\ \A c \in Callers :
           running[c].pc \notin {"start", "aborted"}
               => LET alone == Replayed(running[c].input, running[c].fed)
                  IN /\ heap[running[c].ref] = alone
                     /\ running[c].pc = "returned"
                            => running[c].reply = run_workflow_result(alone)

\* C18 witness: two calls with different inputs are both past their search
\* at once, one with results and one without, the shared pgvector client
\* having been built.
C18_Witness ==
    /\ running["a"].pc = "searched"
    /\ running["b"].pc = "searched"
    /\ running["a"].input # running["b"].input
    /\ heap[running["a"].ref].search_results # <<>>
    /\ heap[running["b"].ref].search_results = <<>>
    /\ global_client # None

\* C21 as stated: the Retriever and the Synthesizer leave next_action as the
\* Intent Router set it.
C21_OnlyRouterWritesNextAction ==
    [][(pc \in {"policy_search", "response_generator"})
           => state'.next_action = state.next_action]_vars

\* C21 amended: every node that runs writes next_action.  The Retriever is
\* entered with the router's search_policies and leaves generate_response;
\* the Synthesizer leaves end; the value at the end of the turn is end,
\* written by the last node that ran, whatever the router chose.
C21_EachStageWritesNextAction ==
    /\ pc = "policy_search" => state.next_action = "search_policies"
    /\ pc = "searched" => state.next_action = "generate_response"
    /\ Times("response_generator") = 1 => state.next_action = "end"
    /\ TurnOver => state.next_action = "end"

\* C21 witness: the router chose search_policies, the Retriever and the
\* Synthesizer (on its error path) ran, and the turn ended with end.
C21_Witness ==
    /\ pc = "END"
    /\ routed = "policy_search"
    /\ ran = <<"supervisor", "policy_search", "response_generator">>
    /\ CallRaised("response_llm")
    /\ state.next_action = "end"

\* C22: the Intent Router's step leaves search_results and final_response as
\* they were, the Retriever's step leaves final_response, and the
\* Synthesizer's step leaves search_results, on every path of each.
C22_OnlyOwnersWrite ==
    [][/\ (pc = "supervisor")
              => /\ state'.search_results = state.search_results
                 /\ state'.final_response = state.final_response
       /\ (pc = "policy_search") => state'.final_response = state.final_response
       /\ (pc = "response_generator")
              => state'.search_results = state.search_results]_vars

\* C22 witness: a turn whose Synthesizer took its error path ended with the
\* Retriever's two results still in place and the Synthesizer's text as the
\* reply.
C22_Witness ==
    /\ pc = "END"
    /\ CallRaised("response_llm")
    /\ Len(state.search_results) = 2
    /\ Len(io["vector_index"].value) = 2
    /\ state.final_response # None

Rank(position) ==
    CASE position = "start" -> 7
      [] position = "supervisor" -> 6
      [] position = "routing" -> 5
      [] position = "policy_search" -> 4
      [] position = "searched" -> 3
      [] position = "response_generator" -> 2
      [] position \in {"END", "aborted"} -> 1
      [] position = "returned" -> 0

\* C24: a turn runs at most three nodes, none twice; a turn that has not
\* returned can always take a step (each provider call returning or
\* raising); every step brings the turn nearer to its return, so the graph
\* has no cycle; and the nodes after the Retriever and after the Synthesizer
\* are fixed, the only branch being the one after the Intent Router.
C24_TurnTerminates ==
    /\ [](/\ Len(ran) <= 3
          /\ \A node \in {"supervisor", "policy_search", "response_generator"} :
                 Times(node) <= 1
          /\ pc # "returned" => ENABLED Next)
    /\ [][/\ Rank(pc') < Rank(pc)
          /\ (pc = "searched") => pc' = "response_generator"
          /\ (pc = "response_generator") => pc' = "END"]_vars

\* C24 witness: a turn returned after three nodes.
C24_Witness ==
    /\ pc = "returned"
    /\ Len(ran) = 3
    /\ raised = None

\* the orders in which the nodes of one turn may have run so far
StageOrders ==
    {<<>>, <<"supervisor">>, <<"supervisor", "policy_search">>,
     <<"supervisor", "response_generator">>,
     <<"supervisor", "policy_search", "response_generator">>}

\* C25: the nodes run in the order supervisor, (policy_search),
\* response_generator, the supervisor always first; the step after the
\* supervisor enters the Retriever exactly when next_action is
\* search_policies, a finished turn ran the Retriever exactly when it was so
\* routed, and the rewrite, embedding and index calls happen only in such
\* turns.
C25_StagesInOrder ==
    /\ [](/\ ran \in StageOrders
          /\ (pc \in {"policy_search", "response_generator"}) => ran[1] = "supervisor"
          /\ TurnOver => (Times("policy_search") = 1 <=> routed = "policy_search")
          /\ \A s \in {"rewrite_llm", "embedding", "vector_index"} :
                 calls[s] > 0 => (routed = "policy_search"
                                     /\ Times("policy_search") = 1))
    /\ [][(pc = "routing")
              => (pc' = "policy_search" <=> state.next_action = "search_policies")]_vars

\* C25 witness: a turn routed straight to the Synthesizer ended having made
\* no rewrite, embedding or index call.
C25_Witness ==
    /\ pc = "END"
    /\ ran = <<"supervisor", "response_generator">>
    /\ CallReturned("supervisor_llm", JsonAction("generate_response"))
    /\ calls["embedding"] = 0
    /\ calls["vector_index"] = 0

\* C26: in one turn each remote-call site (the router's, the rewrite's and
\* the Synthesizer's generation call, the embedding call, the index search)
\* is called at most once, a call that raised included.
C26_NoCallIssuedTwice ==
    \A s \in Sites :
        /\ calls[s] <= 1
        /\ CallRaised(s) => calls[s] = 1

\* C26 witness: a turn returned in which the rewrite, the embedding and the
\* generation call each raised, and each was made once.
C26_Witness ==
    /\ pc = "returned"
    /\ CallRaised("rewrite_llm") /\ calls["rewrite_llm"] = 1
    /\ CallRaised("embedding") /\ calls["embedding"] = 1
    /\ CallRaised("response_llm") /\ calls["response_llm"] = 1
    /\ calls["supervisor_llm"] = 1

\* C27: every candidate the Retriever leaves has a string (never None) for
\* title, description, category and region, and the Synthesizer can format
\* the list without raising.
C27_CandidateFieldsAreStrings ==
    pc = "searched"
        => /\ \A i \in 1..Len(state.search_results) :
                  \A field \in {"title", "description", "category", "region"} :
                      state.search_results[i][field] # None
           /\ ~FormatRaises(state.search_results)

\* the supervisor ran its except block: the latest message could not be
\* subscripted, the call raised, or the reply was JSON that is no object
SupervisorErred ==
    /\ Times("supervisor") = 1
    /\ initial.messages # <<>>
    /\ \/ LatestContent(initial.messages).raises
       \/ CallRaised("supervisor_llm")
       \/ CallReturned("supervisor_llm", JsonArray)
       \/ CallReturned("supervisor_llm", JsonString)

\* the Retriever ran its except block (its inner handlers, for the rewrite
\* and inside search_policies, are not it)
RetrieverErred ==
    /\ Times("policy_search") = 1
    /\ LatestContent(initial.messages).raises

\* the Synthesizer ran its except block: formatting or the call raised
SynthesizerErred ==
    /\ Times("response_generator") = 1
    /\ (FormatRaises(state.search_results) \/ CallRaised("response_llm"))

\* C28: no step clears error once it is set, and at the end of a turn error
\* is set exactly when some node ran its except block.
C28_ErrorStaysSet ==
    /\ [][(state.error # None) => state'.error # None]_vars
    /\ [](TurnOver => (state.error # None
                          <=> (SupervisorErred \/ RetrieverErred \/ SynthesizerErred)))

\* C28 witness: a turn ended with error set by the Synthesizer, whose
\* formatting raised before any generation call.
C28_Witness ==
    /\ pc = "END"
    /\ FormatRaises(state.search_results)
    /\ calls["response_llm"] = 0
    /\ state.error = "Response generation error: TypeError"

\* C29: when run_workflow returns from a turn whose final_response is still
\* None, it returns the default text; it never returns None.
C29_DefaultTextWhenNoResponse ==
    (pc = "returned" /\ entry = "run_workflow")
        => /\ (raised = None /\ state.final_response = None) => reply = DefaultReply
           /\ reply # None

(***************************************************************************)
(* The onboarding API (api/v1/onboarding.py)                               *)
(***************************************************************************)
\* the requests the API is sent; pydantic has validated them: goals has 1
\* to 5 items, priority_goal is None or one of goals
FinancialGoals == {"savings", "housing"}
GoalsLists == {<<"savings">>, <<"savings", "housing">>}
GoalsSelectionRequests ==
    {r \in [goals : GoalsLists, priority_goal : FinancialGoals \cup {None}] :
         r.priority_goal # None
             => \E i \in 1..Len(r.goals) : r.goals[i] = r.priority_goal}
ProfileInfoRequests ==
    [age : {"14", "25"}, region : {"Seoul"}, job_category : {"student"},
     employment_status : {None}, income_range : {"no income"},
     education_level : {None}]
ConsentRequests ==
    [push_notification : BOOLEAN, marketing_notification : {FALSE},
     data_analytics : {TRUE}, personalized_ads : {FALSE},
     ai_personality : {None, "friendly"}]

\* db.query(UserProfile).filter(UserProfile.user_id == current_user.id)
ProfilesOf(user_id) == {p \in user_profiles : p.user_id = user_id}
\* db.query(UserConsent).filter(UserConsent.user_id == current_user.id)
ConsentsOf(user_id) == {c \in user_consents : c.user_id = user_id}

\* priority in goals_list
Contains(list, item) == \E i \in 1..Len(list) : list[i] = item

\* goals_list.remove(priority): the first occurrence goes
Remove(list, item) ==
    LET first == CHOOSE i \in 1..Len(list) :
                     list[i] = item /\ \A j \in 1..(i - 1) : list[j] # item
    IN SubSeq(list, 1, first - 1) \o SubSeq(list, first + 1, Len(list))

\* max(a, b)
Max(a, b) == IF a >= b THEN a ELSE b

\* the goals as stored: the priority goal, when given, moves to the front
goals_list(request) ==
    IF request.priority_goal # None /\ Contains(request.goals, request.priority_goal)
    THEN <<request.priority_goal>> \o Remove(request.goals, request.priority_goal)
    ELSE request.goals

BadRequest == "400 Bad Request"
Ok == "200 OK"

\* db.commit() went through: the rows are written and the answer is sent
Committed(profiles, consents, answer) ==
    /\ user_profiles' = profiles
    /\ user_consents' = consents
    /\ onboarding_response' = answer

\* an HTTPException leaves the handler: nothing was committed
Refused(status) ==
    /\ onboarding_response' = [NoResponse EXCEPT !.status = status]
    /\ UNCHANGED <<user_profiles, user_consents>>

\* db.commit() either goes through, or raises and the handler rolls back
\* and answers 500
Commit(profiles, consents, answer) ==
    \E committed \in BOOLEAN :
        IF committed
        THEN Committed(profiles, consents, answer)
        ELSE Refused(InternalServerError)

\* POST /goals: the profile is created when missing, the goals are stored
\* and the completion rate is raised to at least 20
select_goals(request, current_user) ==
    LET found == ProfilesOf(current_user)
        profile == IF found = {} THEN UserProfile(current_user)
                   ELSE CHOOSE p \in found : TRUE
    IN /\ requests < MaxRequests
       /\ requests' = requests + 1
       /\ Commit((user_profiles \ found) \cup
                    {[profile EXCEPT
                         !.goals = goals_list(request),
                         !.profile_completion_rate = Max(@, 20)]},
                 user_consents,
                 [status |-> Ok, next_step |-> "profile",
                  profile_completion_rate |-> None])
       /\ UNCHANGED <<turnVars, docVars, callVars>>

\* base_completion + profile_completion of update_profile_info
update_profile_info_rate(profile) ==
    LET base_completion == IF profile.goals # <<>> THEN 20 ELSE 0
        profile_completion == 60
    IN base_completion + profile_completion

\* POST /profile: 400 without a profile; else the basic information is
\* stored and the completion rate is recomputed
update_profile_info(request, current_user) ==
    LET found == ProfilesOf(current_user)
        profile == CHOOSE p \in found : TRUE
        rate == update_profile_info_rate(profile)
    IN /\ requests < MaxRequests
       /\ requests' = requests + 1
       /\ IF found = {}
          THEN Refused(BadRequest)
          ELSE Commit((user_profiles \ found) \cup
                         {[profile EXCEPT
                              !.age = request.age,
                              !.region = request.region,
                              !.job_category = request.job_category,
                              !.employment_status = request.employment_status,
                              !.income_range = request.income_range,
                              !.education_level = request.education_level,
                              !.profile_completion_rate = rate]},
                      user_consents,
                      [status |-> Ok, next_step |-> "consent",
                       profile_completion_rate |-> rate])
       /\ UNCHANGED <<turnVars, docVars, callVars>>

\* the consent row update_consent writes: a new one with the mandatory
\* consents set, or the existing one with its optional consents replaced
consent_row(request, current_user) ==
    LET found == ConsentsOf(current_user)
        consent == IF found = {}
                   THEN UserConsent(current_user)
                   ELSE CHOOSE c \in found : TRUE
    IN [consent EXCEPT
           !.push_notification = request.push_notification,
           !.marketing_notification = request.marketing_notification,
           !.data_analytics = request.data_analytics,
           !.personalized_ads = request.personalized_ads]

\* POST /consent: 400 without a profile; else the consents are stored and
\* the onboarding is completed at rate 100
update_consent(request, current_user) ==
    LET found == ProfilesOf(current_user)
        profile == CHOOSE p \in found : TRUE
    IN /\ requests < MaxRequests
       /\ requests' = requests + 1
       /\ IF found = {}
          THEN Refused(BadRequest)
          ELSE Commit((user_profiles \ found) \cup
                         {[profile EXCEPT
                              !.ai_personality =
                                  IF request.ai_personality # None
                                  THEN request.ai_personality ELSE @,
                              !.onboarding_completed = TRUE,
                              !.profile_completion_rate = 100]},
                      (user_consents \ ConsentsOf(current_user)) \cup
                          {consent_row(request, current_user)},
                      [status |-> Ok, next_step |-> "completed",
                       profile_completion_rate |-> None])
       /\ UNCHANGED <<turnVars, docVars, callVars>>

SelectGoals ==
    \E request \in GoalsSelectionRequests, current_user \in Users :
        select_goals(request, current_user)

UpdateProfileInfo ==
    \E request \in ProfileInfoRequests, current_user \in Users :
        update_profile_info(request, current_user)

UpdateConsent ==
    \E request \in ConsentRequests, current_user \in Users :
        update_consent(request, current_user)

OnboardingNext ==
    \/ SelectGoals
    \/ UpdateProfileInfo
    \/ UpdateConsent

OnboardingSpec == Init /\ [][OnboardingNext]_vars

\* C30: after any sequence of goals, profile and consent requests, a
\* profile with onboarding_completed true has profile_completion_rate 100,
\* and onboarding_completed never goes back from true to false.
C30_CompletedMeansFullRate ==
    /\ [](\A p \in user_profiles :
              p.onboarding_completed => p.profile_completion_rate = 100)
    /\ [][\A p \in user_profiles : p.onboarding_completed =>
              \E q \in user_profiles' :
                  q.user_id = p.user_id /\ q.onboarding_completed]_vars

====
